---- MODULE Spec2Model ----
(***************************************************************************)
(* Report extraction pipeline of health-insight-tracker-ai: the upload     *)
(* dialog (processFile), the OCR orchestrator (performOCR in its dynamic,  *)
(* user-selected and sequential variants), the model invoker               *)
(* (performOCRWithModel), the structured analyzer (analyzeWithModel /      *)
(* analyzeWithGroq, analyzeHealthReport) and the browser's localStorage.   *)
(***************************************************************************)
EXTENDS Integers, Sequences, FiniteSets, TLC

(***************************************************************************)
(* Bounds of the model.                                                    *)
(***************************************************************************)
\* longest OCR transcription, in abstract length units
MaxLen == 2
\* longest fallback list drawn for the persisted settings
MaxFallbacks == 2

(***************************************************************************)
(* Values.                                                                 *)
(***************************************************************************)
\* JavaScript null / an absent localStorage item
Null == "null"

\* const maxSize = 10 * 1024 * 1024
maxSize == 10 * 1024 * 1024

\* ['application/pdf', 'image/jpeg', 'image/png']
validTypes == {"application/pdf", "image/jpeg", "image/png"}

FileNames == {"Report_John_Doe.pdf", "scan.pdf"}
FileTypes == validTypes \cup {"text/plain"}
FileSizes == {maxSize, maxSize + 1}
\* the uploads drawn: both documents as a PDF of the maximal size; one of
\* them also under each supported type at the limit and one byte over, and
\* as plain text
Files ==
  [name : FileNames, type : {"application/pdf"}, size : {maxSize}]
  \cup [name : {"scan.pdf"}, type : validTypes, size : FileSizes]
  \cup [name : {"scan.pdf"}, type : FileTypes \ validTypes, size : {maxSize}]
NoFile == [name |-> "", type |-> "", size |-> 0]

\* getDefaultModels()
getDefaultModels ==
  << "anthropic/claude-3-opus:beta", "openai/gpt-4o",
     "anthropic/claude-3-sonnet:beta", "google/gemini-pro-vision",
     "anthropic/claude-3-haiku:beta" >>

\* localStorage.getItem("openrouter_model") || "anthropic/claude-3-opus:beta"
DefaultPrimary == "anthropic/claude-3-opus:beta"

\* model identifiers a user can configure
ConfigModels == {"openai/gpt-4o", "google/gemini-pro-vision"}

\* a fallback list longer than the cap of 8 applied by the sequential variant
LongFallbacks ==
  << "openai/gpt-4o", "google/gemini-pro-vision", "openai/gpt-4o",
     "google/gemini-pro-vision", "openai/gpt-4o", "google/gemini-pro-vision",
     "openai/gpt-4o", "google/gemini-pro-vision", "openai/gpt-4o" >>

\* the item 'openrouter_fallback_models', by what JSON.parse makes of its
\* text: "array" (the list), "invalid" (JSON.parse throws), "null" (the JSON
\* value null)
FallbackSetting(json, list) == [json |-> json, list |-> list]

\* the fallback lists drawn for the settings: the prefixes of LongFallbacks
ShortFallbackLists ==
  {FallbackSetting("array", SubSeq(LongFallbacks, 1, n)) : n \in 0..MaxFallbacks}
FallbackLists == ShortFallbackLists \cup {FallbackSetting("array", LongFallbacks)}
MalformedFallbacks ==
  {FallbackSetting("invalid", << >>), FallbackSetting("null", << >>)}

(***************************************************************************)
(* OCR text.  A transcription of a document is described by its length and *)
(* by the patient header the extraction patterns find in it: a             *)
(* transcription of length >= 2 includes the header of the document.       *)
(***************************************************************************)
NoText == [doc |-> "", len |-> 0, pName |-> Null, pAge |-> Null, pGender |-> Null]

HeaderName(doc) == IF doc = "Report_John_Doe.pdf" THEN "John A Doe" ELSE "Jane Roe"

\* the name as a transcription that lost most of the header reads it
Surname(doc) == IF doc = "Report_John_Doe.pdf" THEN "Doe" ELSE "Roe"

\* "Age: 42" / "Age: 37", and "Gender: Male" (kept in upper case by the
\* extractor) / "Sex: F" (expanded to Female)
HeaderAge(doc) == IF doc = "Report_John_Doe.pdf" THEN "42" ELSE "37"
HeaderGender(doc) == IF doc = "Report_John_Doe.pdf" THEN "MALE" ELSE "Female"

\* the text a model returns: a transcription of length 1 holds the surname
\* only, a longer one the whole header
TextOf(doc, n) ==
  [doc |-> doc, len |-> n,
   pName   |-> IF n >= 2 THEN HeaderName(doc) ELSE Surname(doc),
   pAge    |-> IF n >= 2 THEN HeaderAge(doc) ELSE Null,
   pGender |-> IF n >= 2 THEN HeaderGender(doc) ELSE Null]

(***************************************************************************)
(* Outcomes of one chat-completion request for OCR, as the invoker sees    *)
(* them: the file read, the fetch, the status and the body.                *)
(***************************************************************************)
FailKinds == {"read_error", "read_abort", "read_nonstring", "transport",
              "http_error_json", "http_error_text", "no_content"}
OCROutcomes == [kind : FailKinds, len : {0}] \cup [kind : {"ok"}, len : 1..MaxLen]

\* results of performOCRWithModel: null, a rejected promise, or an OCRResult
NullResult     == [tag |-> "null", text |-> NoText, modelUsed |-> ""]
RejectedResult == [tag |-> "rejected", text |-> NoText, modelUsed |-> ""]
PendingResult  == [tag |-> "pending", text |-> NoText, modelUsed |-> ""]
OCRResult(t, m) == [tag |-> "ok", text |-> t, modelUsed |-> m]

(***************************************************************************)
(* Pure helpers of the OCR service.                                        *)
(***************************************************************************)
\* extractPatientNameFromFilename(file.name), evaluated on the file names of
\* the model: "Report_John_Doe" loses its "Report_" prefix and splits into
\* two name parts; "scan" has a single part.
extractPatientNameFromFilename(filename) ==
  IF filename = "Report_John_Doe.pdf" THEN "John Doe" ELSE Null

\* extractPatientInfoFromText(text): what the first matching pattern of each
\* field captures; a field is stored only when something was captured.
extractPatientInfoFromText(text) ==
  [name |-> text.pName, age |-> text.pAge, gender |-> text.pGender]

NoInfo == [name |-> Null, age |-> Null, gender |-> Null]

\* the sink handed to performOCR by the dialog: safeToast wraps toast in
\* try/catch and never raises; without a sink the hook's toast is used
SinkRaises(sink) == sink = "raising"

ParallelVariants == {"dynamic", "user"}
Variants == ParallelVariants \cup {"sequential"}

\* the terminal events of a FileReader: load with a string or with another
\* result, error, abort
ReaderEvents == {"ok", "read_nonstring", "read_error", "read_abort"}

\* fileToBase64: how the promise settles for each FileReader outcome
fileToBase64(v, kind) ==
  IF kind \in {"read_error", "read_nonstring"} THEN "rejected"
  ELSE IF kind = "read_abort"
       THEN (IF v \in ParallelVariants THEN "rejected" ELSE "never")
       ELSE "resolved"

\* what an exception raised inside performOCRWithModel becomes when it is
\* not caught
invokerCatchRethrows(v, sink) == [result |-> RejectedResult, info |-> NoInfo]

\* the catch block of performOCRWithModel: the parallel variants notify the
\* failure through the sink, then every variant returns null
invokerCatch(v, sink) ==
  IF v \in ParallelVariants /\ SinkRaises(sink)
  THEN [result |-> RejectedResult, info |-> NoInfo]
  ELSE [result |-> NullResult, info |-> NoInfo]

\* performOCRWithModel(file, model, apiKey, customToast): the value the
\* promise settles to and the patient scalars it stores
performOCRWithModel(v, f, model, o, sink) ==
  LET caught == invokerCatch(v, sink)
      text == TextOf(f.name, o.len)
  IN  IF fileToBase64(v, o.kind) = "rejected" THEN caught
      ELSE IF o.kind = "transport" THEN caught
      ELSE IF o.kind = "http_error_text" THEN caught
      ELSE IF o.kind = "http_error_json" THEN [result |-> NullResult, info |-> NoInfo]
      ELSE IF o.kind = "no_content" THEN [result |-> NullResult, info |-> NoInfo]
      ELSE IF v \in ParallelVariants
           THEN (IF SinkRaises(sink)
                 THEN [result |-> RejectedResult, info |-> extractPatientInfoFromText(text)]
                 ELSE [result |-> OCRResult(text, model),
                       info |-> extractPatientInfoFromText(text)])
           ELSE [result |-> OCRResult(text, model), info |-> NoInfo]

\* outcomes on which the invocation settles at all
SettlingOutcomes(v) == {o \in OCROutcomes : fileToBase64(v, o.kind) # "never"}

(***************************************************************************)
(* Model selection.                                                        *)
(***************************************************************************)
Entry(id, cap, arch, ctx) ==
  [id |-> id, capVision |-> cap, archImage |-> arch, context_length |-> ctx]

SixEntries ==
  << Entry("c1", TRUE, FALSE, 8000), Entry("c2", FALSE, TRUE, 4000),
     Entry("c3", TRUE, TRUE, 16000), Entry("c4", TRUE, FALSE, 32000),
     Entry("c5", TRUE, FALSE, 4000), Entry("c6", TRUE, FALSE, 200000) >>

CatalogLists ==
  { << >>,
    << Entry("openai/gpt-4o", TRUE, FALSE, 128000) >>,
    << Entry("text-only", FALSE, FALSE, 8000),
       Entry("google/gemini-pro-vision", FALSE, TRUE, 4000),
       Entry("small-vision", TRUE, FALSE, 3999) >>,
    << Entry("text-only", FALSE, FALSE, 8000) >>,
    SixEntries }

CatalogResponses ==
  [kind : {"transport", "http_error_json", "http_error_text", "malformed"},
   data : {<< >>}]
  \cup [kind : {"ok"}, data : CatalogLists]

\* catalog responses drawn while the pipeline runs
PipelineCatalogs == {r \in CatalogResponses : Len(r.data) <= 3}

\* a filter that does not look at the context length
SupportsVision(model) == model.capVision \/ model.archImage

\* hasVisionCapability && hasEnoughContext
SupportsOCR(model) ==
  (model.capVision \/ model.archImage) /\ model.context_length >= 4000

Ids(entries) == [i \in 1..Len(entries) |-> entries[i].id]

Min(a, b) == IF a < b THEN a ELSE b

\* getAvailableModels(apiKey) of the dynamic variant
getAvailableModels(resp) ==
  IF resp.kind \in {"transport", "http_error_text", "malformed"}
  THEN getDefaultModels
  ELSE IF resp.kind = "http_error_json" THEN << >>
  ELSE LET supportedModels == Ids(SelectSeq(resp.data, SupportsOCR))
           topModels == SubSeq(supportedModels, 1, Min(5, Len(supportedModels)))
       IN  IF Len(topModels) = 0 THEN getDefaultModels ELSE topModels

\* getUserSelectedModels() of the user-selected variant.  A text that does
\* not parse leaves fallbackModels = []; the JSON value null is assigned and
\* its .length raises a TypeError when the flag lets it be evaluated.
getUserSelectedModels(primary, useMultiple, setting) ==
  LET primaryModel == IF primary = Null THEN DefaultPrimary ELSE primary
      fallbackModels == IF setting.json = "array" THEN setting.list ELSE << >>
  IN  IF useMultiple /\ setting.json = "null"
      THEN [threw |-> TRUE, models |-> << >>]
      ELSE [threw |-> FALSE,
            models |-> IF useMultiple /\ Len(fallbackModels) > 0
                       THEN << primaryModel >> \o fallbackModels
                       ELSE << primaryModel >>]

(***************************************************************************)
(* Best-result selection.                                                  *)
(***************************************************************************)
IsSuccess(r) == r.tag # "null"

\* a filter that gives up on the whole batch when one invocation failed
keepNoneOnFailure(allRes) ==
  IF \E i \in 1..Len(allRes) : ~IsSuccess(allRes[i]) THEN << >> ELSE allRes

\* allResults.filter(result => result !== null)
keepSuccessful(allRes) == SelectSeq(allRes, IsSuccess)

\* a comparison that lets a later result of equal length win
LongerOrLater(best, current) ==
  IF current.text.len >= best.text.len THEN current ELSE best

\* (best, current) => (current.text.length > best.text.length) ? current : best
Longer(best, current) == IF current.text.len > best.text.len THEN current ELSE best

RECURSIVE ReduceFrom(_, _, _)
ReduceFrom(s, i, best) ==
  IF i > Len(s) THEN best ELSE ReduceFrom(s, i + 1, Longer(best, s[i]))

\* successfulResults.reduce(..., successfulResults[0])
bestResult(successfulResults) == ReduceFrom(successfulResults, 1, successfulResults[1])

(***************************************************************************)
(* Structured analyzer: response contents, parsing and normalisation.      *)
(***************************************************************************)
\* a metric as the model supplied it; Null marks a missing or empty field.
\* value: [t |-> "num" | "numstr" | "ratio" | "absent", s |-> text]
RawMetric(name, value, unit, range, hist, cat) ==
  [name |-> name, value |-> value, unit |-> unit, status |-> Null,
   range |-> range, history |-> hist, description |-> Null, category |-> cat]

rmGlucose ==
  RawMetric("Glucose", [t |-> "numstr", s |-> "95"], "mg/dL", "70-100 mg/dL",
            << [date |-> "Jan 2024", value |-> 90] >>, "Metabolic")
rmBare ==
  RawMetric(Null, [t |-> "ratio", s |-> "120/80"], Null, Null, << >>, Null)

\* the same parameter reported a second time in other letter case
rmGlucoseAgain ==
  RawMetric("GLUCOSE", [t |-> "num", s |-> "97"], "mg/dL", Null, << >>, Null)

RawMetricLists ==
  { << >>, << rmGlucose >>, << rmGlucose, rmBare >>, << rmGlucose, rmGlucoseAgain >> }

\* typeof value === 'string' && !isNaN(parseFloat(value)) && !value.includes('/')
CoerceValue(value) ==
  IF value.t = "numstr" THEN [t |-> "num", s |-> value.s] ELSE value

OrElse(x, dflt) == IF x = Null THEN dflt ELSE x

\* a metric that keeps the name the model supplied, missing or not
KeepName(metric) ==
  [name        |-> metric.name,
   value       |-> CoerceValue(metric.value),
   unit        |-> OrElse(metric.unit, ""),
   status      |-> OrElse(metric.status, "normal"),
   range       |-> OrElse(metric.range, "Not specified"),
   history     |-> << >>,
   description |-> OrElse(metric.description, ""),
   category    |-> OrElse(metric.category, "Other")]

\* a metric that keeps the history the model supplied
KeepHistory(metric) ==
  [name        |-> OrElse(metric.name, "Unnamed Parameter"),
   value       |-> CoerceValue(metric.value),
   unit        |-> OrElse(metric.unit, ""),
   status      |-> OrElse(metric.status, "normal"),
   range       |-> OrElse(metric.range, "Not specified"),
   history     |-> metric.history,
   description |-> OrElse(metric.description, ""),
   category    |-> OrElse(metric.category, "Other")]

\* the map callback that builds metricsWithHistory
NormalizeMetric(metric) ==
  [name        |-> OrElse(metric.name, "Unnamed Parameter"),
   value       |-> CoerceValue(metric.value),
   unit        |-> OrElse(metric.unit, ""),
   status      |-> OrElse(metric.status, "normal"),
   range       |-> OrElse(metric.range, "Not specified"),
   history     |-> << >>,
   description |-> OrElse(metric.description, ""),
   category    |-> OrElse(metric.category, "Other")]

NormalizeAll(ms) == [i \in 1..Len(ms) |-> NormalizeMetric(ms[i])]

\* patient information: the name/age/gender triple and one other field
NoPatientInfo == [name |-> Null, age |-> Null, gender |-> Null, patientId |-> Null]
ModelPatientInfo ==
  [name |-> "J. Doe", age |-> "41", gender |-> "Male", patientId |-> "P-1"]

\* What JSON.parse yields for a candidate text.
\*   k: "nomatch" (the pattern did not match), "empty" (a match whose capture
\*      trims to the empty string), "invalid" (JSON.parse throws), "falsy"
\*      (null, false, 0, ""), "scalar" (a truthy value that is no object with
\*      fields), "object"
\*   metrics: "absent" | "falsy" | "nonarray" | "array", with the array in list
Parsed(k, metrics, list, info) ==
  [k |-> k, metrics |-> metrics, list |-> list, patientInfo |-> info]

PNoMatch == Parsed("nomatch", "absent", << >>, NoPatientInfo)
PEmpty   == Parsed("empty", "absent", << >>, NoPatientInfo)
PInvalid == Parsed("invalid", "absent", << >>, NoPatientInfo)
PFalsy   == Parsed("falsy", "absent", << >>, NoPatientInfo)
PScalar  == Parsed("scalar", "absent", << >>, NoPatientInfo)

\* the object {} : no field at all
PEmptyObject == Parsed("object", "absent", << >>, NoPatientInfo)

ParsedObjects ==
  { PEmptyObject,
    Parsed("object", "absent", << >>, ModelPatientInfo),
    Parsed("object", "falsy", << >>, NoPatientInfo),
    Parsed("object", "nonarray", << >>, NoPatientInfo) }
  \cup { Parsed("object", "array", l, i) :
           l \in RawMetricLists, i \in {NoPatientInfo, ModelPatientInfo} }

ParsedValues == {PInvalid, PFalsy, PScalar} \cup ParsedObjects

\* choices[0].message.content.  type is typeof content; for a string, fence,
\* brace and whole say what the fenced-code capture, the {...} capture and
\* the whole text parse to.  A whole text that is a JSON object starts with
\* its opening brace and ends with its closing one, so the {...} capture is
\* the whole object.
Content(type, obj, fence, brace, whole) ==
  [type |-> type, obj |-> obj, fence |-> fence, brace |-> brace, whole |-> whole]

StringContents ==
  { Content("string", PFalsy, f, b, w) :
      f \in {PNoMatch, PEmpty} \cup ParsedValues,
      b \in {PNoMatch} \cup ParsedValues,
      w \in ParsedValues }

\* A {...} capture parses to an object or not at all.  A fence inside a text
\* that is itself a JSON object lies inside its string values, where every
\* quote is escaped: the capture cannot be an object with a quoted key.
WellFormedString(c) ==
  /\ c.whole.k = "object" => c.brace = c.whole
  /\ c.brace.k \in {"nomatch", "invalid", "object"}
  /\ (c.fence.k = "object" /\ c.whole.k = "object") => c.fence = PEmptyObject

AnalyzerContents ==
  { c \in StringContents : WellFormedString(c) }
  \cup { Content("object", o, PNoMatch, PNoMatch, PInvalid) : o \in {PFalsy} \cup ParsedObjects }
  \cup { Content("other", PFalsy, PNoMatch, PNoMatch, PInvalid) }

NoContent == Content("other", PFalsy, PNoMatch, PNoMatch, PInvalid)

AnalyzerResponses ==
  [kind : {"transport", "http_error_json", "http_error_text", "no_message"},
   content : {NoContent}]
  \cup [kind : {"content"}, content : AnalyzerContents]

(***************************************************************************)
(* analyzeWithModel (OpenRouter) and analyzeWithGroq.                      *)
(***************************************************************************)
AnalysisResult(metrics, recs, summary, model, info) ==
  [tag |-> "ok", metrics |-> metrics, recommendations |-> recs,
   summary |-> summary, modelUsed |-> model, patientInfo |-> info]

NullAnalysis ==
  [tag |-> "null", metrics |-> << >>, recommendations |-> "", summary |-> "",
   modelUsed |-> "", patientInfo |-> NoPatientInfo]

\* the two fixed fallback texts
RecNoMetrics == "Unable to extract specific metrics from this report format. Please consult your healthcare provider for interpretation."
SumNoMetrics == "The analysis could not extract structured metrics from this report format."
RecParseError == "Unable to analyze the report format. Please consult your healthcare provider for interpretation."
SumParseError == "The analysis encountered an error when processing this report."

FallbackSummaries == {SumNoMetrics, SumParseError}
FallbackRecommendations == {RecNoMetrics, RecParseError}

\* jsonMatch = fenced match || {...} match || [null, contentText];
\* jsonText  = jsonMatch[1]?.trim() || contentText
JsonText(c) ==
  IF c.fence.k # "nomatch"
  THEN (IF c.fence.k = "empty" THEN c.whole ELSE c.fence)
  ELSE IF c.brace.k # "nomatch" THEN c.brace ELSE c.whole

\* the value bound to analysisContent before the metrics check
AnalysisContent(c) ==
  IF c.type = "object" THEN c.obj
  ELSE IF c.type = "string" THEN JsonText(c)
  ELSE PFalsy

\* a check that only looks at the parsed value itself
LacksValue(a) == a.k \in {"falsy", "scalar"}

\* !analysisContent || !analysisContent.metrics
LacksMetrics(a) ==
  a.k \in {"falsy", "scalar"} \/ a.metrics \in {"absent", "falsy"}

\* provider is "openrouter" (analyzeWithModel) or "groq" (analyzeWithGroq);
\* only analyzeWithModel tags its result with the model
TagModel(provider, model) == IF provider = "openrouter" THEN model ELSE ""

\* what an exception raised inside the analyzer becomes when it is not caught
analyzerCatchRethrows == [NullAnalysis EXCEPT !.tag = "rejected"]

\* the outer catch block of analyzeWithModel / analyzeWithGroq: return null
analyzerCatch == NullAnalysis

\* responses on which the analyzer raises inside its try block: fetch
\* rejects, or the status is not 2xx (response.json() raises on a body that
\* is no JSON, and throw new Error(...) follows one that is)
AnalyzerThrows(resp) == resp.kind \in {"transport", "http_error_json", "http_error_text"}

analyzeWithModel(provider, resp, model) ==
  IF AnalyzerThrows(resp) THEN analyzerCatch
  ELSE IF resp.kind # "content" THEN NullAnalysis     \* no choices[0].message
  ELSE
    LET a == AnalysisContent(resp.content)
    IN  IF a.k = "invalid"
        THEN AnalysisResult(<< >>, RecParseError, SumParseError,
                            TagModel(provider, model), NoPatientInfo)
        ELSE IF LacksMetrics(a)
        THEN AnalysisResult(<< >>, RecNoMetrics, SumNoMetrics,
                            TagModel(provider, model), NoPatientInfo)
        \* (analysisContent.metrics || []).map is no function
        ELSE IF a.metrics = "nonarray" THEN analyzerCatch
        ELSE AnalysisResult(NormalizeAll(a.list), "model", "model",
                            TagModel(provider, model),
                            IF provider = "groq" THEN a.patientInfo ELSE NoPatientInfo)

ProviderOf(v) == IF v = "sequential" THEN "openrouter" ELSE "groq"

(***************************************************************************)
(* Metric Reconciler: the merge of the metric lists of several analyzer    *)
(* results, keyed by normalized metric name.                               *)
(***************************************************************************)
\* longest metric list handed to the reconciler
MaxMetrics == 2

\* the merge key of a metric name: lower case, punctuation and white space
\* stripped, synonyms folded, for the names that occur in the model
normalizeMetricName(name) ==
  CASE name \in {"Glucose", "GLUCOSE", "glucose"} -> "glucose"
    [] name \in {"Sodium", "sodium", "Na"} -> "na"
    [] name = "Unnamed Parameter" -> "unnamedparameter"
    [] OTHER -> name

\* the number of characters of the descriptions and ranges of the model
TextLength(text) ==
  CASE text = "Fasting sugar" -> 13 [] text = "Not specified" -> 13
    [] text = "70-100 mg/dL" -> 12
    [] OTHER -> 0

\* the metrics the reconciler is handed: normalized metrics that differ in
\* name, description, category and reference range
MergeableMetrics ==
  { [NormalizeMetric(rmGlucose) EXCEPT !.name = n, !.description = d,
                                       !.category = c, !.range = r] :
      n \in {"Glucose", "GLUCOSE", "Sodium"}, d \in {"", "Fasting sugar"},
      c \in {"Other", "Metabolic"}, r \in {"Not specified", "70-100 mg/dL"} }

MetricLists == UNION { [1..n -> MergeableMetrics] : n \in 0..MaxMetrics }

\* the position of the entry of the working set stored under key, 0 if none
KeyIndex(working, key) ==
  IF \E i \in 1..Len(working) : normalizeMetricName(working[i].name) = key
  THEN CHOOSE i \in 1..Len(working) : normalizeMetricName(working[i].name) = key
  ELSE 0

IsPlaceholderRange(range) == range \in {"", "Not specified"}

\* the update in place of an existing entry by an incoming metric
updateEntry(existing, incoming) ==
  [existing EXCEPT
     !.description = IF incoming.description # ""
                        /\ TextLength(incoming.description) > TextLength(existing.description)
                     THEN incoming.description ELSE existing.description,
     !.category = IF existing.category = "Other" /\ incoming.category # "Other"
                  THEN incoming.category ELSE existing.category,
     !.range = IF IsPlaceholderRange(existing.range)
                  \/ (~IsPlaceholderRange(incoming.range)
                      /\ TextLength(incoming.range) > TextLength(existing.range))
               THEN incoming.range ELSE existing.range]

\* a working set in which every incoming metric is taken for a new key
insertAlways(working, metric) == Append(working, metric)

\* one metric enters the working set: inserted verbatim under a new key,
\* merged into the existing entry otherwise
insertOrUpdate(working, metric) ==
  LET i == KeyIndex(working, normalizeMetricName(metric.name))
  IN  IF i = 0 THEN Append(working, metric)
      ELSE [working EXCEPT ![i] = updateEntry(working[i], metric)]

RECURSIVE mergeFrom(_, _, _)
mergeFrom(working, metrics, i) ==
  IF i > Len(metrics) THEN working
  ELSE mergeFrom(insertOrUpdate(working, metrics[i]), metrics, i + 1)

\* the merge of two metric lists, processed in the order given
mergeMetrics(first, second) == mergeFrom(mergeFrom(<< >>, first, 1), second, 1)

(***************************************************************************)
(* State.                                                                  *)
(***************************************************************************)
VARIABLES
  variant,                \* which performOCR / dialog / analyzer the build holds
  \* localStorage
  scannedReports,         \* the parsed 'scannedReports' array; << >> when absent
  patientName, patientAge, patientGender,
  openrouter_api_key, openrouter_model,
  openrouter_use_multiple_models, openrouter_fallback_models,
  groq_api_key, together_api_key,
  \* the dialog's run
  pc,                     \* where processFile is suspended
  file,                   \* the uploaded File
  models,                 \* the models invoked by performOCR, in invocation order
  allResults,             \* what each invocation settled to
  ocrResult,              \* what performOCR returned
  result,                 \* the result held by analyzeHealthReport
  aIdx,                   \* 0 for the primary analyzer call, k for the k-th fallback
  analysisResults,        \* what analyzeHealthReport returned
  lastRun,                \* how the last processFile ended
  netCalls,               \* network requests issued by the current service call
  toasts,                 \* titles notified by performOCR, analyzeHealthReport and
                          \* the dialog during the run (the per-model notices of
                          \* performOCRWithModel are not kept)
  prevDoc,                \* the document stored in the slot when the run began
  \* one call of a service function on its own
  call,                   \* the function called and its arguments
  ret,                    \* what the call settled to
  \* one fan-out of performOCR on its own
  responses,              \* what the request for each model is answered
  order,                  \* the models in the order their requests completed
  \* a second browser tab on the same localStorage
  tab2                    \* the locals of the run of the tab that is not scheduled

settings == << openrouter_api_key, openrouter_model, openrouter_use_multiple_models,
               openrouter_fallback_models, groq_api_key, together_api_key >>
patient == << patientName, patientAge, patientGender >>
ocrVars == << models, allResults, ocrResult >>
analysisVars == << result, aIdx, analysisResults >>
single == << call, ret, responses, order, tab2 >>
pipeline == << variant, scannedReports, patient, settings, pc, file, ocrVars,
               analysisVars, lastRun, netCalls, toasts, prevDoc >>
vars == << pipeline, single >>

Keys == {Null, "sk-key"}

\* the record of a call: which function, and the arguments it was given
NoOutcome == [kind |-> "none", len |-> 0]
NoResponse == [kind |-> "none", content |-> NoContent]
NoCatalog == [kind |-> "none", data |-> << >>]
Call(fn, v, f, model, o, sink, resp) ==
  [fn |-> fn, variant |-> v, file |-> f, model |-> model, outcome |-> o,
   sink |-> sink, response |-> resp, catalog |-> NoCatalog, list |-> << >>]
NoCall == Call("none", "", NoFile, "", NoOutcome, "", NoResponse)
Return(r, info, a) ==
  [result |-> r, info |-> info, analysis |-> a, models |-> << >>, merged |-> << >>]
NoReturn == Return(PendingResult, NoInfo, NullAnalysis)

\* the locals of a dialog in which no run has started
IdleTab ==
  [pc |-> "idle", file |-> NoFile, models |-> << >>, allResults |-> << >>,
   ocrResult |-> NullResult, result |-> NullAnalysis, aIdx |-> 0,
   analysisResults |-> NullAnalysis, lastRun |-> "none", netCalls |-> 0,
   toasts |-> {}, prevDoc |-> Null]

InitSettings ==
  /\ openrouter_api_key \in Keys
  /\ \/ /\ variant = "dynamic"
        /\ openrouter_model = Null
        /\ openrouter_use_multiple_models = FALSE
        /\ openrouter_fallback_models = FallbackSetting("array", << >>)
        /\ groq_api_key \in Keys
        /\ together_api_key \in Keys
     \/ /\ variant = "user"
        /\ openrouter_model \in {Null, "openai/gpt-4o"}
        /\ openrouter_use_multiple_models \in BOOLEAN
        /\ openrouter_fallback_models \in ShortFallbackLists
        /\ groq_api_key \in Keys
        /\ together_api_key \in Keys
     \/ /\ variant = "user"
        /\ openrouter_model = Null
        /\ openrouter_use_multiple_models \in BOOLEAN
        /\ openrouter_fallback_models \in MalformedFallbacks
        /\ groq_api_key = "sk-key"
        /\ together_api_key = "sk-key"
     \/ /\ variant = "sequential"
        /\ openrouter_model \in {Null, "openai/gpt-4o"}
        /\ openrouter_use_multiple_models \in BOOLEAN
        /\ openrouter_fallback_models \in FallbackLists
        /\ groq_api_key = Null
        /\ together_api_key = Null
     \/ /\ variant = "sequential"
        /\ openrouter_model = Null
        /\ openrouter_use_multiple_models = TRUE
        /\ openrouter_fallback_models \in MalformedFallbacks
        /\ groq_api_key = Null
        /\ together_api_key = Null

InitRun ==
  /\ pc = "idle"
  /\ file = NoFile
  /\ models = << >>
  /\ allResults = << >>
  /\ ocrResult = NullResult
  /\ result = NullAnalysis
  /\ aIdx = 0
  /\ analysisResults = NullAnalysis
  /\ lastRun = "none"
  /\ netCalls = 0
  /\ toasts = {}
  /\ prevDoc = Null

Init ==
  /\ variant \in Variants
  /\ scannedReports = << >>
  /\ patientName = Null /\ patientAge = Null /\ patientGender = Null
  /\ InitSettings
  /\ InitRun
  /\ call = NoCall
  /\ ret = NoReturn
  /\ responses = << >>
  /\ order = << >>
  /\ tab2 = IdleTab

\* a removal that leaves the item where it is
keepsItem(old) == old

\* localStorage.removeItem(key): the item read afterwards
removeItem(old) == Null

\* a clearAllData that leaves the stored reports where they are
clearAllDataKeepsReports == scannedReports

\* the 'scannedReports' item after clearAllData():
\* localStorage.removeItem('scannedReports')
clearAllData == << >>

(***************************************************************************)
(* Settings form (OpenAIKeyForm).                                          *)
(***************************************************************************)
SettingsOpen == pc \in {"idle", "uploading"}

\* The record of a finished run (what its calls returned, what it notified)
\* is kept until the user acts again; while the progress bar of an upload
\* runs, the file handed to processFile stays.
ForgetRun ==
  IF pc = "idle"
  THEN /\ file' = NoFile
       /\ models' = << >> /\ allResults' = << >> /\ ocrResult' = NullResult
       /\ result' = NullAnalysis /\ aIdx' = 0 /\ analysisResults' = NullAnalysis
       /\ netCalls' = 0
       /\ prevDoc' = Null
  ELSE UNCHANGED << file, ocrVars, analysisVars, netCalls, prevDoc >>

\* onSubmit(data)
onSubmit(key, model) ==
  /\ SettingsOpen
  /\ openrouter_api_key' = key
  /\ openrouter_model' = model
  /\ ForgetRun
  /\ IF pc = "idle" THEN lastRun' = "none" /\ toasts' = {}
                    ELSE UNCHANGED << lastRun, toasts >>
  /\ UNCHANGED << single, variant, scannedReports, patient, openrouter_use_multiple_models,
                  openrouter_fallback_models, groq_api_key, together_api_key, pc >>

\* resetApiKey()
resetApiKey ==
  /\ SettingsOpen
  /\ openrouter_api_key' = Null
  /\ openrouter_model' = Null
  /\ ForgetRun
  /\ IF pc = "idle" THEN lastRun' = "none" /\ toasts' = {}
                    ELSE UNCHANGED << lastRun, toasts >>
  /\ UNCHANGED << single, variant, scannedReports, patient, openrouter_use_multiple_models,
                  openrouter_fallback_models, groq_api_key, together_api_key, pc >>

\* clearAllHealthData(): the explicit "clear data" action
clearAllHealthData ==
  /\ pc = "idle"
  /\ scannedReports' = << >>
  /\ IF ProviderOf(variant) = "groq"
     THEN /\ patientName' = removeItem(patientName)
          /\ patientAge' = removeItem(patientAge)
          /\ patientGender' = removeItem(patientGender)
     ELSE UNCHANGED patient
  /\ toasts' = {"Data Cleared"}
  /\ lastRun' = "cleared"
  /\ ForgetRun
  /\ UNCHANGED << single, variant, settings, pc >>

(***************************************************************************)
(* Upload dialog: handleFileUpload.                                        *)
(***************************************************************************)
\* the credential the dialog looks up before it starts
DialogKey ==
  IF variant = "sequential" THEN openrouter_api_key ELSE together_api_key

\* the sink the dialog passes to performOCR
customToast == IF variant = "sequential" THEN "default" ELSE "safeToast"

handleFileUpload(f) ==
  /\ pc = "idle"
  /\ IF DialogKey = Null
     THEN /\ toasts' = {"API Key Missing"}
          /\ lastRun' = "not_started"
          /\ file' = NoFile
          /\ prevDoc' = Null
          /\ UNCHANGED << scannedReports, patient, pc >>
     ELSE /\ toasts' = {}
          /\ lastRun' = "running"
          /\ pc' = "uploading"
          /\ file' = f
          /\ prevDoc' = IF scannedReports = << >> THEN Null
                        ELSE scannedReports[1].rawText.doc
          /\ IF variant \in ParallelVariants
             THEN /\ scannedReports' = clearAllData
                  /\ patientName' = removeItem(patientName)
                  /\ patientAge' = removeItem(patientAge)
                  /\ patientGender' = removeItem(patientGender)
             ELSE UNCHANGED << scannedReports, patient >>
  \* what the previous run left in the dialog's locals is gone
  /\ models' = << >> /\ allResults' = << >> /\ ocrResult' = NullResult
  /\ result' = NullAnalysis /\ aIdx' = 0 /\ analysisResults' = NullAnalysis
  /\ netCalls' = 0
  /\ UNCHANGED << single, variant, settings >>

\* FileUploader.validateAndProcessFiles(files) for the drop of one file: a
\* file of another type or above the limit is refused with a toast of the
\* uploader, any other is handed to onFilesSelected
validateAndProcessFiles(f) ==
  /\ pc = "idle"
  /\ IF f.type \notin validTypes \/ ~(f.size <= maxSize)
     THEN UNCHANGED vars
     ELSE handleFileUpload(f)

(***************************************************************************)
(* performOCR, up to its first await.                                      *)
(***************************************************************************)
SetIf(old, v) == IF v # Null THEN v ELSE old

AllPending(n) == [i \in 1..n |-> PendingResult]

\* performOCR settled without a result: on null processFile gives up with
\* "OCR Failed"; a rejection lands in the catch block of processFile
OCREnds(res, titles) ==
  /\ ocrResult' = res
  /\ toasts' = toasts \cup titles
                 \cup (IF res = RejectedResult THEN {"Processing Error"} ELSE {"OCR Failed"})
  /\ lastRun' = IF res = RejectedResult THEN "processing_error" ELSE "ocr_failed"
  /\ pc' = "idle"
  /\ UNCHANGED analysisVars

\* what an exception raised inside performOCR becomes when it is not caught
performOCRCatchRethrows == RejectedResult

\* the catch block of performOCR: toast "OCR Failed", return null
performOCRCatch == NullResult

\* return null
OCRFails(titles) == OCREnds(NullResult, titles)

\* throw inside the try block of performOCR
OCRThrows(titles) == OCREnds(performOCRCatch, titles)

\* checks that refuse a file of exactly the maximal size
RejectionAtLimit(f, key) ==
  IF key = Null THEN "API Key Missing"
  ELSE IF f.type \notin validTypes THEN "Unsupported File Type"
  ELSE IF f.size >= maxSize THEN "File Too Large"
  ELSE ""

\* the checks shared by the three variants; "" when the file passes
Rejection(f, key) ==
  IF key = Null THEN "API Key Missing"
  ELSE IF f.type \notin validTypes THEN "Unsupported File Type"
  ELSE IF f.size > maxSize THEN "File Too Large"
  ELSE ""

\* let fallbackModels = JSON.parse(fallbackModelsStr) raises on a text that
\* does not parse, and fallbackModels.length raises on the value null
SettingsThrow == openrouter_fallback_models.json \in {"invalid", "null"}

\* fallbackModels.slice(0, 8) when longer than 8
CappedFallbacks ==
  IF Len(openrouter_fallback_models.list) > 8
  THEN SubSeq(openrouter_fallback_models.list, 1, 8)
  ELSE openrouter_fallback_models.list

PrimaryModel == IF openrouter_model = Null THEN DefaultPrimary ELSE openrouter_model

processFile ==
  /\ pc = "uploading"
  /\ scannedReports' = clearAllData
  /\ LET why == Rejection(file, openrouter_api_key)
         fromName == extractPatientNameFromFilename(file.name)
         identified == IF fromName # Null THEN {"Patient Identified"} ELSE {}
         selection == getUserSelectedModels(openrouter_model,
                                            openrouter_use_multiple_models,
                                            openrouter_fallback_models)
     IN IF variant = "sequential" /\ SettingsThrow
        THEN \* the settings are read before the key is looked at
             /\ OCRThrows({"Data Cleared"})
             /\ netCalls' = 0
             /\ models' = << >> /\ allResults' = << >>
             /\ UNCHANGED patient
        ELSE IF why # ""
        THEN /\ OCRFails({why} \cup (IF variant = "sequential" THEN {"Data Cleared"} ELSE {}))
             /\ netCalls' = 0
             /\ models' = << >> /\ allResults' = << >>
             /\ IF variant \in ParallelVariants
                THEN /\ patientName' = removeItem(patientName)
                     /\ patientAge' = removeItem(patientAge)
                     /\ patientGender' = removeItem(patientGender)
                ELSE UNCHANGED patient
        ELSE IF variant = "user" /\ selection.threw
        THEN /\ OCRThrows(identified)
             /\ netCalls' = 0
             /\ models' = << >> /\ allResults' = << >>
             /\ patientName' = SetIf(removeItem(patientName), fromName)
             /\ patientAge' = removeItem(patientAge)
             /\ patientGender' = removeItem(patientGender)
        ELSE /\ UNCHANGED << ocrResult, analysisVars, lastRun >>
             /\ CASE variant = "dynamic" ->
                       \* await getAvailableModels(apiKey)
                       /\ patientName' = SetIf(removeItem(patientName), fromName)
                       /\ patientAge' = removeItem(patientAge)
                       /\ patientGender' = removeItem(patientGender)
                       /\ models' = << >> /\ allResults' = << >>
                       /\ netCalls' = 1
                       /\ toasts' = toasts \cup {"Selecting Models"} \cup identified
                       /\ pc' = "catalog"
                  [] variant = "user" ->
                       /\ patientName' = SetIf(removeItem(patientName), fromName)
                       /\ patientAge' = removeItem(patientAge)
                       /\ patientGender' = removeItem(patientGender)
                       /\ models' = selection.models
                       /\ allResults' = AllPending(Len(selection.models))
                       /\ netCalls' = Len(selection.models)
                       /\ toasts' = toasts \cup identified
                                       \cup {"Using Selected Models", "Processing Document"}
                       /\ pc' = "invoking"
                  [] variant = "sequential" ->
                       /\ UNCHANGED patient
                       /\ models' = << PrimaryModel >>
                       /\ allResults' = AllPending(1)
                       /\ netCalls' = 1
                       /\ toasts' = toasts \cup {"Data Cleared"}
                       /\ pc' = "invoking"
  /\ UNCHANGED << single, variant, settings, file, prevDoc >>

(***************************************************************************)
(* performOCR after its awaits.                                            *)
(***************************************************************************)
\* dynamic variant: the catalog request settles and every selected model is
\* invoked at once
\* a test that lets an empty selection through
NeverEmpty(modelsToUse) == FALSE

\* if (modelsToUse.length === 0)
NoUsableModel(modelsToUse) == Len(modelsToUse) = 0

catalogSettles(resp) ==
  /\ pc = "catalog"
  /\ LET modelsToUse == getAvailableModels(resp)
     IN IF NoUsableModel(modelsToUse)
        THEN /\ OCRFails({"No Available Models"})
             /\ UNCHANGED << models, allResults, netCalls >>
        ELSE /\ models' = modelsToUse
             /\ allResults' = AllPending(Len(modelsToUse))
             /\ netCalls' = netCalls + Len(modelsToUse)
             /\ pc' = "invoking"
             /\ toasts' = toasts \cup {"Models Selected", "Processing Document"}
             /\ UNCHANGED << ocrResult, analysisVars, lastRun >>
  /\ UNCHANGED << single, variant, scannedReports, patient, settings, file, prevDoc >>

\* one invocation of performOCRWithModel settles
modelSettles(i, o) ==
  /\ pc = "invoking"
  /\ i \in 1..Len(models)
  /\ allResults[i] = PendingResult
  /\ o \in SettlingOutcomes(variant)
  /\ LET r == performOCRWithModel(variant, file, models[i], o, customToast)
     IN  /\ allResults' = [allResults EXCEPT ![i] = r.result]
         /\ patientName' = SetIf(patientName, r.info.name)
         /\ patientAge' = SetIf(patientAge, r.info.age)
         /\ patientGender' = SetIf(patientGender, r.info.gender)
  /\ UNCHANGED << single, variant, scannedReports, settings, pc, file, models, ocrResult,
                  analysisVars, lastRun, netCalls, toasts, prevDoc >>

\* an await that takes a pending promise for a settled one
SettledOrPending(r) == TRUE

Settled(r) == r # PendingResult

\* performOCR returned a result to processFile
OCRReturns(best) ==
  /\ ocrResult' = best
  /\ pc' = "ocr_done"
  /\ UNCHANGED << analysisVars, lastRun >>

\* an array that holds the results in the order the requests completed
awaitAllInCompletionOrder(allRes, ord) == [k \in 1..Len(ord) |-> allRes[ord[k]]]

\* await Promise.all(allPromises): the results in the order of the promises,
\* whatever the order ord in which they settled
awaitAll(allRes, ord) == allRes

\* parallel variants: await Promise.all(allPromises) and what follows it
ocrCollect ==
  /\ pc = "invoking"
  /\ variant \in ParallelVariants
  /\ \/ \E i \in 1..Len(allResults) : allResults[i] = RejectedResult
     \/ \A i \in 1..Len(allResults) : Settled(allResults[i])
  /\ LET successfulResults == keepSuccessful(awaitAll(allResults, order))
     IN IF \E i \in 1..Len(allResults) : allResults[i] = RejectedResult
        THEN OCRThrows({})          \* Promise.all rejects
        ELSE IF Len(successfulResults) = 0
        THEN OCRThrows({})          \* throw new Error("All ... models failed ...")
        ELSE /\ OCRReturns(bestResult(successfulResults))
             /\ toasts' = toasts \cup {"OCR Complete"}
  /\ UNCHANGED << single, variant, scannedReports, patient, settings, file, models,
                  allResults, netCalls, prevDoc >>

\* a fallback loop that runs whatever the flag says
triesFallbackWithoutFlag(last, k) ==
  ~IsSuccess(last) /\ k < Len(CappedFallbacks)

\* !result && useMultipleModels && fallbackModels.length > 0, then the loop
\* over fallbackModels with its break on the first result; k fallbacks have
\* been tried
triesFallback(last, k) ==
  /\ ~IsSuccess(last)
  /\ openrouter_use_multiple_models
  /\ k < Len(CappedFallbacks)

\* sequential variant: the awaited invocation settled; fall back or finish
ocrNext ==
  /\ pc = "invoking"
  /\ variant = "sequential"
  /\ Settled(allResults[Len(models)])
  /\ LET last == allResults[Len(models)]
         k == Len(models) - 1                \* fallbacks tried so far
     IN IF triesFallback(last, k)
        THEN /\ models' = Append(models, CappedFallbacks[k + 1])
             /\ allResults' = Append(allResults, PendingResult)
             /\ netCalls' = netCalls + 1
             /\ toasts' = toasts \cup {"Trying Alternative Models"}
             /\ UNCHANGED << pc, ocrResult, analysisVars, lastRun >>
        ELSE /\ UNCHANGED << models, allResults, netCalls >>
             /\ IF IsSuccess(last)
                THEN /\ OCRReturns(last)
                     /\ toasts' = toasts \cup {"OCR Completed"}
                ELSE OCRThrows({})
  /\ UNCHANGED << single, variant, scannedReports, patient, settings, file, prevDoc >>

(***************************************************************************)
(* analyzeHealthReport.                                                    *)
(***************************************************************************)
\* analyzer responses drawn while the pipeline runs: every failure kind and
\* the texts without a code fence that are a JSON value or hold no braces
PipelineResponses ==
  { r \in AnalyzerResponses :
      r.kind = "content" =>
        /\ r.content.type = "string"
        /\ r.content.fence = PNoMatch
        /\ r.content.brace \in {PNoMatch, r.content.whole} }

\* a lookup of the OpenRouter key whatever the provider
AnalysisKeyOfOpenRouter == openrouter_api_key

\* localStorage.getItem("groq_api_key") / localStorage.getItem("openrouter_api_key")
AnalysisKey == IF ProviderOf(variant) = "groq" THEN groq_api_key ELSE openrouter_api_key

RejectedAnalysis == [NullAnalysis EXCEPT !.tag = "rejected"]

\* analyzeHealthReport settled without a result: on null processFile gives
\* up with "Analysis Failed"; a rejection lands in its catch block
AnalysisEnds(res, titles) ==
  /\ analysisResults' = res
  /\ toasts' = toasts \cup titles
                 \cup (IF res = RejectedAnalysis THEN {"Processing Error"}
                       ELSE {"Analysis Failed"})
  /\ lastRun' = IF res = RejectedAnalysis THEN "processing_error" ELSE "analysis_failed"
  /\ pc' = "idle"

\* what an exception raised inside analyzeHealthReport becomes when it is
\* not caught
analyzeCatchRethrows == RejectedAnalysis

\* the catch block of analyzeHealthReport: toast "Analysis Failed", return null
analyzeCatch == NullAnalysis

\* return null
AnalysisFails(titles) == AnalysisEnds(NullAnalysis, titles)

\* throw inside the try block of analyzeHealthReport
AnalysisThrows(titles) == AnalysisEnds(analyzeCatch, titles)

\* analyzeHealthReport(ocrResult.text), up to its first await
analyzeHealthReport ==
  /\ pc = "ocr_done"
  /\ result' = NullAnalysis
  /\ aIdx' = 0
  /\ IF ProviderOf(variant) = "openrouter" /\ SettingsThrow
     THEN \* the settings are read before the key is looked at
          /\ AnalysisThrows({})
          /\ netCalls' = 0
     ELSE IF AnalysisKey = Null
     THEN /\ AnalysisFails({"API Key Missing"})
          /\ netCalls' = 0
     ELSE /\ netCalls' = 1
          /\ pc' = "analysis"
          /\ toasts' = toasts \cup (IF ProviderOf(variant) = "groq"
                                     THEN {"Analyzing Report"} ELSE {})
          /\ UNCHANGED << analysisResults, lastRun >>
  \* performOCR has returned: its locals are gone
  /\ models' = << >> /\ allResults' = << >>
  /\ UNCHANGED << single, variant, scannedReports, patient, settings, file, ocrResult, prevDoc >>

\* a merge in which the value of the model wins over the stored one
ModelFirstPatientInfo(info) ==
  [info EXCEPT !.name = SetIf(patientName, info.name),
               !.age = SetIf(patientAge, info.age),
               !.gender = SetIf(patientGender, info.gender)]

\* getStoredPatientInfo() merged over the model's patient information
MergedPatientInfo(info) ==
  [info EXCEPT !.name = SetIf(info.name, patientName),
               !.age = SetIf(info.age, patientAge),
               !.gender = SetIf(info.gender, patientGender)]

\* analyzeHealthReport returned a result to processFile
AnalysisReturns(res) ==
  /\ analysisResults' = res
  /\ scannedReports' = << >>          \* localStorage.removeItem('scannedReports')
  /\ toasts' = toasts \cup {"Analysis Complete"}
  /\ pc' = "analysis_done"
  /\ UNCHANGED lastRun

AnalysisModel(k) == IF k = 0 THEN PrimaryModel ELSE CappedFallbacks[k]

\* a loop that takes whatever the fallback model tried last returned
adoptsAnyFallback(held, fallback) == fallback # NullAnalysis

\* fallbackResult && (!result || fallbackResult.metrics.length > result.metrics.length)
adoptsFallback(held, fallback) ==
  /\ fallback # NullAnalysis
  /\ (held = NullAnalysis \/ Len(fallback.metrics) > Len(held.metrics))

\* the awaited analyzer call settles
analysisSettles(resp) ==
  /\ pc = "analysis"
  /\ LET r == analyzeWithModel(ProviderOf(variant), resp, AnalysisModel(aIdx))
     IN IF ProviderOf(variant) = "groq"
        THEN /\ result' = r              \* const result = await analyzeWithGroq(...)
             /\ UNCHANGED << aIdx, netCalls >>
             /\ IF r = NullAnalysis
                THEN AnalysisThrows({}) /\ UNCHANGED scannedReports
                ELSE AnalysisReturns([r EXCEPT !.patientInfo = MergedPatientInfo(r.patientInfo)])
        ELSE
          LET held == IF aIdx = 0 THEN r
                      ELSE IF adoptsFallback(result, r) THEN r ELSE result
              enterLoop == /\ aIdx = 0
                           /\ (r = NullAnalysis \/ Len(r.metrics) = 0)
                           /\ openrouter_use_multiple_models
                           /\ Len(CappedFallbacks) > 0
              break == /\ aIdx > 0 /\ adoptsFallback(result, r)
                       /\ Len(r.metrics) > 5
              more == aIdx > 0 /\ ~break /\ aIdx < Len(CappedFallbacks)
          IN  /\ result' = held
              /\ IF enterLoop \/ more
                 THEN /\ aIdx' = aIdx + 1
                      /\ netCalls' = netCalls + 1
                      /\ toasts' = toasts \cup {"Trying Alternative Models"}
                      /\ UNCHANGED << pc, analysisResults, lastRun, scannedReports >>
                 ELSE /\ UNCHANGED << aIdx, netCalls >>
                      /\ IF held = NullAnalysis
                         THEN AnalysisThrows({}) /\ UNCHANGED scannedReports
                         ELSE AnalysisReturns(held)
  /\ UNCHANGED << single, variant, patient, settings, file, ocrVars, prevDoc >>

(***************************************************************************)
(* processFile after analyzeHealthReport: the report is built and stored.  *)
(***************************************************************************)
\* file.name.replace(/\.[^/.]+$/, "")
WithoutExtension(name) ==
  IF name = "Report_John_Doe.pdf" THEN "Report_John_Doe"
  ELSE IF name = "scan.pdf" THEN "scan" ELSE name

NewReport(f, ocr, analysis) ==
  IF variant = "sequential"
  THEN [title |-> [from |-> "file", text |-> WithoutExtension(f.name)],
        metrics |-> analysis.metrics,
        recommendations |-> analysis.recommendations,
        rawText |-> ocr.text,
        summary |-> analysis.summary,
        patientInfo |-> NoPatientInfo,
        modelUsed |-> ""]
  ELSE LET info == MergedPatientInfo(analysis.patientInfo)
       IN [title |-> IF info.name # Null
                     THEN [from |-> "patient", text |-> info.name]
                     ELSE [from |-> "file", text |-> WithoutExtension(f.name)],
           metrics |-> analysis.metrics,
           recommendations |-> analysis.recommendations,
           rawText |-> ocr.text,
           summary |-> analysis.summary,
           patientInfo |-> info,
           modelUsed |-> "Llama 4 Maverik"]

\* a processFile that adds the report to the reports already stored
storeReportAppends ==
  /\ pc = "analysis_done"
  /\ scannedReports' = Append(scannedReports, NewReport(file, ocrResult, analysisResults))
  /\ lastRun' = "stored"
  /\ pc' = "idle"
  /\ UNCHANGED << single, variant, patient, settings, file, ocrVars, analysisVars,
                  netCalls, toasts, prevDoc >>

\* a processFile that builds the report and never writes it
storeReportWritesNothing ==
  /\ pc = "analysis_done"
  /\ lastRun' = "stored"
  /\ pc' = "idle"
  /\ UNCHANGED << single, variant, scannedReports, patient, settings, file, ocrVars,
                  analysisVars, netCalls, toasts, prevDoc >>

\* localStorage.setItem('scannedReports', JSON.stringify([newReport]))
storeReport ==
  /\ pc = "analysis_done"
  /\ scannedReports' = << NewReport(file, ocrResult, analysisResults) >>
  /\ lastRun' = "stored"
  /\ pc' = "idle"
  /\ UNCHANGED << single, variant, patient, settings, file, ocrVars, analysisVars,
                  netCalls, toasts, prevDoc >>

(***************************************************************************)
(* Specification of the pipeline.                                          *)
(***************************************************************************)
Next ==
  \/ \E key \in {"sk-key"}, model \in {"openai/gpt-4o"} : onSubmit(key, model)
  \/ resetApiKey
  \/ clearAllHealthData
  \/ \E f \in Files : validateAndProcessFiles(f)
  \/ \E f \in Files : handleFileUpload(f)
  \/ processFile
  \/ \E resp \in PipelineCatalogs : catalogSettles(resp)
  \/ \E i \in 1..5, o \in OCROutcomes : modelSettles(i, o)
  \/ ocrCollect
  \/ ocrNext
  \/ analyzeHealthReport
  \/ \E resp \in PipelineResponses : analysisSettles(resp)
  \/ storeReport

Spec == Init /\ [][Next]_vars

(***************************************************************************)
(* Single calls of performOCRWithModel and of analyzeWithModel /           *)
(* analyzeWithGroq, over every outcome of their request.                   *)
(***************************************************************************)
\* the sinks the dialogs hand over: safeToast, or none (the hook's toast)
InjectedSinks == {"safeToast", "default"}

Providers == {"openrouter", "groq"}

InitCalls ==
  /\ variant = "dynamic"
  /\ scannedReports = << >>
  /\ patientName = Null /\ patientAge = Null /\ patientGender = Null
  /\ openrouter_api_key = "sk-key"
  /\ openrouter_model = Null
  /\ openrouter_use_multiple_models = FALSE
  /\ openrouter_fallback_models = FallbackSetting("array", << >>)
  /\ groq_api_key = "sk-key"
  /\ together_api_key = "sk-key"
  /\ InitRun
  /\ call = NoCall
  /\ ret = NoReturn
  /\ responses = << >>
  /\ order = << >>
  /\ tab2 = IdleTab

\* await performOCRWithModel(file, model, apiKey, customToast)
callPerformOCRWithModel(v, f, model, o, sink) ==
  /\ call = NoCall
  /\ o \in SettlingOutcomes(v)
  /\ call' = Call("performOCRWithModel", v, f, model, o, sink, NoResponse)
  /\ LET r == performOCRWithModel(v, f, model, o, sink)
     IN  ret' = Return(r.result, r.info, NullAnalysis)
  /\ UNCHANGED << pipeline, responses, order, tab2 >>

\* await analyzeWithModel(ocrText, model, apiKey) / analyzeWithGroq(ocrText, apiKey)
callAnalyzeWithModel(provider, resp, model) ==
  /\ call = NoCall
  /\ call' = Call("analyzeWithModel", provider, NoFile, model, NoOutcome, "", resp)
  /\ ret' = Return(NullResult, NoInfo, analyzeWithModel(provider, resp, model))
  /\ UNCHANGED << pipeline, responses, order, tab2 >>

\* await getAvailableModels(apiKey)
callGetAvailableModels(resp) ==
  /\ call = NoCall
  /\ call' = [Call("getAvailableModels", "dynamic", NoFile, "", NoOutcome, "", NoResponse)
                EXCEPT !.catalog = resp]
  /\ ret' = [Return(NullResult, NoInfo, NullAnalysis)
               EXCEPT !.models = getAvailableModels(resp)]
  /\ UNCHANGED << pipeline, responses, order, tab2 >>

\* fileToBase64(file), once the FileReader has fired its terminal event: the
\* state of the promise it returned
callFileToBase64(v, f, kind) ==
  /\ call = NoCall
  /\ call' = Call("fileToBase64", v, f, "", [kind |-> kind, len |-> 0], "", NoResponse)
  /\ ret' = Return([PendingResult EXCEPT !.tag = IF fileToBase64(v, kind) = "never"
                                                  THEN "pending"
                                                  ELSE fileToBase64(v, kind)],
                   NoInfo, NullAnalysis)
  /\ UNCHANGED << pipeline, responses, order, tab2 >>

\* the reconciler merges a list with itself
callMergeMetrics(metrics) ==
  /\ call = NoCall
  /\ call' = [Call("mergeMetrics", "", NoFile, "", NoOutcome, "", NoResponse)
                EXCEPT !.list = metrics]
  /\ ret' = [Return(NullResult, NoInfo, NullAnalysis)
               EXCEPT !.merged = mergeMetrics(metrics, metrics)]
  /\ UNCHANGED << pipeline, responses, order, tab2 >>

NextCalls ==
  \/ \E v \in Variants, f \in Files, model \in ConfigModels, o \in OCROutcomes,
        sink \in InjectedSinks : callPerformOCRWithModel(v, f, model, o, sink)
  \/ \E provider \in Providers, resp \in AnalyzerResponses, model \in ConfigModels :
        callAnalyzeWithModel(provider, resp, model)
  \/ \E resp \in CatalogResponses : callGetAvailableModels(resp)
  \/ \E metrics \in MetricLists : callMergeMetrics(metrics)
  \/ \E v \in Variants, f \in Files, kind \in ReaderEvents : callFileToBase64(v, f, kind)

SpecCalls == InitCalls /\ [][NextCalls]_vars

(***************************************************************************)
(* One fan-out of the parallel performOCR: a fixed list of models, a fixed *)
(* answer for each, and the requests completing in any order.              *)
(***************************************************************************)
RaceModels == SubSeq(getDefaultModels, 1, 3)

InitRace ==
  /\ variant \in ParallelVariants
  /\ scannedReports = << >>
  /\ patientName = Null /\ patientAge = Null /\ patientGender = Null
  /\ openrouter_api_key = "sk-key"
  /\ openrouter_model = Null
  /\ openrouter_use_multiple_models = FALSE
  /\ openrouter_fallback_models = FallbackSetting("array", << >>)
  /\ groq_api_key = "sk-key"
  /\ together_api_key = "sk-key"
  /\ pc = "invoking"
  /\ file \in {f \in Files : f.name = "Report_John_Doe.pdf"}
  /\ models = RaceModels
  /\ allResults = AllPending(Len(RaceModels))
  /\ ocrResult = NullResult
  /\ result = NullAnalysis
  /\ aIdx = 0
  /\ analysisResults = NullAnalysis
  /\ lastRun = "running"
  /\ netCalls = Len(RaceModels)
  /\ toasts = {}
  /\ prevDoc = Null
  /\ call = NoCall
  /\ ret = NoReturn
  /\ responses \in [1..Len(RaceModels) -> OCROutcomes]
  /\ order = << >>
  /\ tab2 = IdleTab

\* the request for models[i] completes with the answer fixed for it
requestCompletes(i) ==
  /\ pc = "invoking"
  /\ i \in 1..Len(models)
  /\ allResults[i] = PendingResult
  /\ LET r == performOCRWithModel(variant, file, models[i], responses[i], customToast)
     IN  /\ allResults' = [allResults EXCEPT ![i] = r.result]
         /\ patientName' = SetIf(patientName, r.info.name)
         /\ patientAge' = SetIf(patientAge, r.info.age)
         /\ patientGender' = SetIf(patientGender, r.info.gender)
  /\ order' = Append(order, i)
  /\ UNCHANGED << call, ret, responses, tab2, variant, scannedReports, settings, pc, file,
                  models, ocrResult, analysisVars, lastRun, netCalls, toasts, prevDoc >>

NextRace ==
  \/ \E i \in 1..Len(RaceModels) : requestCompletes(i)
  \/ ocrCollect

SpecRace == InitRace /\ [][NextRace]_vars

(***************************************************************************)
(* Single calls of performOCRWithModel with any notification sink.         *)
(***************************************************************************)
\* a sink may be any function, one that raises included
AnySink == InjectedSinks \cup {"raising"}

NextSinks ==
  \E v \in Variants, f \in Files, model \in ConfigModels, o \in OCROutcomes,
     sink \in AnySink : callPerformOCRWithModel(v, f, model, o, sink)

SpecSinks == InitCalls /\ [][NextSinks]_vars

(***************************************************************************)
(* Two tabs of the application on one localStorage: each tab runs the      *)
(* dialog of the user-selected variant with its own locals, and the        *)
(* continuations of the two runs interleave at their awaits.               *)
(***************************************************************************)
\* the uploads of the two tabs: both documents as valid PDFs
TabFiles == [name : FileNames, type : {"application/pdf"}, size : {maxSize}]

\* the analyzer answers drawn for the two tabs: a failed request, and the
\* JSON object with one metric, with and without patient information
TabResponses ==
  { r \in PipelineResponses :
      \/ r.kind = "transport"
      \/ /\ r.kind = "content"
         /\ r.content.brace = r.content.whole
         /\ r.content.whole.metrics = "array"
         /\ r.content.whole.list = << rmGlucose >> }

InitTabs ==
  /\ variant = "user"
  /\ scannedReports = << >>
  /\ patientName = Null /\ patientAge = Null /\ patientGender = Null
  /\ openrouter_api_key = "sk-key"
  /\ openrouter_model = Null
  /\ openrouter_use_multiple_models = FALSE
  /\ openrouter_fallback_models = FallbackSetting("array", << >>)
  /\ groq_api_key = "sk-key"
  /\ together_api_key = "sk-key"
  /\ InitRun
  /\ call = NoCall
  /\ ret = NoReturn
  /\ responses = << >>
  /\ order = << >>
  /\ tab2 = IdleTab

\* the event loop of the other tab gets to run: the locals of the two runs
\* change places, localStorage is the same for both
switchTab ==
  /\ tab2' = [pc |-> pc, file |-> file, models |-> models, allResults |-> allResults,
              ocrResult |-> ocrResult, result |-> result, aIdx |-> aIdx,
              analysisResults |-> analysisResults, lastRun |-> lastRun,
              netCalls |-> netCalls, toasts |-> toasts, prevDoc |-> prevDoc]
  /\ pc' = tab2.pc /\ file' = tab2.file
  /\ models' = tab2.models /\ allResults' = tab2.allResults
  /\ ocrResult' = tab2.ocrResult
  /\ result' = tab2.result /\ aIdx' = tab2.aIdx
  /\ analysisResults' = tab2.analysisResults
  /\ lastRun' = tab2.lastRun /\ netCalls' = tab2.netCalls
  /\ toasts' = tab2.toasts /\ prevDoc' = tab2.prevDoc
  /\ UNCHANGED << variant, scannedReports, patient, settings, call, ret, responses, order >>

NextTabs ==
  \/ \E f \in TabFiles : handleFileUpload(f)
  \/ processFile
  \/ \E o \in OCROutcomes : modelSettles(1, o)
  \/ ocrCollect
  \/ analyzeHealthReport
  \/ \E resp \in TabResponses : analysisSettles(resp)
  \/ storeReport
  \/ switchTab

SpecTabs == InitTabs /\ [][NextTabs]_vars

(***************************************************************************)
(* analyzeHealthReport of openAIService on its own: one upload whose OCR   *)
(* succeeds at once, under every persisted model selection, and every      *)
(* answer of the primary model and of the fallback models.                 *)
(***************************************************************************)
\* a response whose JSON object lists six parameters
SixMetricsResponse ==
  LET six == [i \in 1..6 |->
                [rmGlucose EXCEPT !.name = << "Glucose", "Sodium", "Potassium",
                                             "Calcium", "Urea", "Creatinine" >>[i]]]
      whole == Parsed("object", "array", six, NoPatientInfo)
  IN  [kind |-> "content", content |-> Content("string", PFalsy, PNoMatch, whole, whole)]

InitFallback ==
  /\ variant = "sequential"
  /\ scannedReports = << >>
  /\ patientName = Null /\ patientAge = Null /\ patientGender = Null
  /\ openrouter_api_key = "sk-key"
  /\ openrouter_model \in {Null, "openai/gpt-4o"}
  /\ openrouter_use_multiple_models \in BOOLEAN
  /\ openrouter_fallback_models \in FallbackLists
  /\ groq_api_key = Null
  /\ together_api_key = Null
  /\ InitRun
  /\ call = NoCall
  /\ ret = NoReturn
  /\ responses = << >>
  /\ order = << >>
  /\ tab2 = IdleTab

NextFallback ==
  \/ \E f \in TabFiles : handleFileUpload(f)
  \/ processFile
  \/ \E o \in {[kind |-> "ok", len |-> 1]} : modelSettles(1, o)
  \/ ocrNext
  \/ analyzeHealthReport
  \/ \E resp \in PipelineResponses \cup {SixMetricsResponse} : analysisSettles(resp)
  \/ storeReport

SpecFallback == InitFallback /\ [][NextFallback]_vars

(***************************************************************************)
(* Properties.                                                             *)
(***************************************************************************)
\* the document a stored report was extracted from
DocOf(report) == report.rawText.doc

\* the persisted fallback list is a JSON array
FallbacksAreArray == openrouter_fallback_models.json = "array"

\* C1: the report slot never holds more than one report, and right after a
\* successful run it holds exactly one, the report of the document of that
\* run, whatever was stored when the run began.
C1_SlotHoldsLatestReportOnly ==
  /\ Len(scannedReports) <= 1
  /\ lastRun = "stored" =>
       /\ Len(scannedReports) = 1
       /\ DocOf(scannedReports[1]) = file.name
       /\ \A i \in 1..Len(scannedReports) :
            prevDoc # file.name => DocOf(scannedReports[i]) # prevDoc

\* a successful run for one document has just followed a successful run for
\* another one
C1_Witness ==
  /\ lastRun = "stored"
  /\ prevDoc \notin {Null, file.name}
  /\ Len(scannedReports) = 1

C3_NullIffEveryModelFailed ==
  ( /\ variant \in ParallelVariants
    /\ Len(models) > 0
    /\ \/ pc = "ocr_done"
       \/ pc = "idle" /\ lastRun = "ocr_failed" )
  => /\ (ocrResult = NullResult) <=>
          (\A i \in 1..Len(allResults) : allResults[i] = NullResult)
     /\ (\E i \in 1..Len(allResults) : allResults[i].tag = "ok") =>
          (ocrResult.tag = "ok" /\ \E i \in 1..Len(allResults) : allResults[i] = ocrResult)

\* a result was returned although one of the invoked models had failed
C3_Witness ==
  /\ variant \in ParallelVariants
  /\ pc = "ocr_done"
  /\ ocrResult.tag = "ok"
  /\ \E i \in 1..Len(allResults) : allResults[i] = NullResult

\* the successful results of the run, in invocation order
OkResults == SelectSeq(allResults, LAMBDA r : r.tag = "ok")

\* C4: the result returned by the parallel variants is a successful result
\* of maximal text length, and the first one of that length in the list.
C4_BestIsFirstLongest ==
  (variant \in ParallelVariants /\ pc = "ocr_done") =>
    \E i \in 1..Len(OkResults) :
      /\ OkResults[i] = ocrResult
      /\ \A j \in 1..Len(OkResults) : OkResults[j].text.len <= OkResults[i].text.len
      /\ \A j \in 1..(i - 1) : OkResults[j].text.len < OkResults[i].text.len

\* two different models returned texts of the same, maximal, length and a
\* shorter text came before them
C4_Witness ==
  /\ variant \in ParallelVariants
  /\ pc = "ocr_done"
  /\ \E i, j, k \in 1..Len(OkResults) :
       /\ i < j /\ j < k
       /\ OkResults[i].text.len < OkResults[j].text.len
       /\ OkResults[j].text.len = OkResults[k].text.len
       /\ OkResults[j].text.len = ocrResult.text.len
       /\ OkResults[j].modelUsed # OkResults[k].modelUsed

ProviderKey == IF variant = "sequential" THEN openrouter_api_key ELSE groq_api_key

C7_SequentialInvocationOrder ==
  (variant = "sequential" /\ pc \in {"invoking", "ocr_done"}) =>
    /\ Len(models) >= 1
    /\ Len(models) <= 1 + Len(openrouter_fallback_models.list)
    /\ Len(allResults) = Len(models)
    /\ \A i \in 1..Len(models) :
         models[i] = IF i = 1
                     THEN (IF openrouter_model = Null
                           THEN "anthropic/claude-3-opus:beta" ELSE openrouter_model)
                     ELSE openrouter_fallback_models.list[i - 1]
    /\ Len(models) > 1 => openrouter_use_multiple_models
    /\ \A i \in 1..(Len(models) - 1) : allResults[i] = NullResult

\* the primary and the first fallback failed and the second fallback
\* returned the text
C7_Witness ==
  /\ variant = "sequential"
  /\ pc = "ocr_done"
  /\ Len(models) = 3
  /\ allResults[3].tag = "ok"

\* C8: performOCRWithModel settles to null or to a result, never to a
\* rejection; to null for a transport error, for a non-2xx status with or
\* without a JSON body and for a response without content; and to a result
\* only for a successful response, the result carrying its text and the
\* model that was asked.
C8_InvokerReturnsNullOnFailure ==
  call.fn = "performOCRWithModel" =>
    /\ ret.result.tag \in {"null", "ok"}
    /\ call.outcome.kind \in {"transport", "http_error_json", "http_error_text",
                              "no_content"} => ret.result = NullResult
    /\ ret.result.tag = "ok" =>
         /\ call.outcome.kind = "ok"
         /\ ret.result.text = TextOf(call.file.name, call.outcome.len)
         /\ ret.result.modelUsed = call.model
    /\ call.outcome.kind = "ok" => ret.result.tag = "ok"

\* a non-2xx response whose body is no JSON was turned into null
C8_Witness ==
  /\ call.fn = "performOCRWithModel"
  /\ call.outcome.kind = "http_error_text"
  /\ ret.result = NullResult

\* C9: performOCR and analyzeHealthReport settle to a result or to null;
\* no rejection reaches processFile, whose catch block is never entered.
C9_NothingEscapesTheServices ==
  /\ ocrResult.tag \in {"null", "ok"}
  /\ analysisResults.tag \in {"null", "ok"}
  /\ lastRun # "processing_error"
  /\ "Processing Error" \notin toasts

\* performOCR raised on a fallback list that does not parse and returned
\* null from its catch block
C9_Witness ==
  /\ lastRun = "ocr_failed"
  /\ variant = "sequential"
  /\ openrouter_fallback_models.json = "invalid"
  /\ ocrResult = NullResult
  /\ netCalls = 0

\* no candidate text of the content parses
NothingParses(c) ==
  /\ c.fence.k \in {"nomatch", "empty", "invalid"}
  /\ c.brace.k \in {"nomatch", "invalid"}
  /\ c.whole.k = "invalid"

\* the text (or the object handed over) is an object without a metrics field
ObjectWithoutMetrics(c) ==
  \/ c.type = "object" /\ c.obj.k = "object" /\ c.obj.metrics = "absent"
  \/ c.type = "string" /\ c.whole.k = "object" /\ c.whole.metrics = "absent"
  \/ /\ c.type = "string" /\ c.whole.k # "object"
     /\ \/ c.fence.k = "object" /\ c.fence.metrics = "absent"
        \/ /\ c.fence.k = "nomatch"
           /\ c.brace.k = "object" /\ c.brace.metrics = "absent"

\* C10: for a response text of which no candidate parses, and for one that
\* is an object without metrics, the analyzer returns a result with no
\* metric whose recommendations and summary are the fixed texts saying that
\* the extraction failed.
C10_FallbackAnalysisOnUnparseableText ==
  ( /\ call.fn = "analyzeWithModel"
    /\ call.response.kind = "content"
    /\ \/ call.response.content.type = "string" /\ NothingParses(call.response.content)
       \/ ObjectWithoutMetrics(call.response.content) )
  => /\ ret.analysis.tag = "ok"
     /\ ret.analysis.metrics = << >>
     /\ ret.analysis.recommendations \in
          {"Unable to extract specific metrics from this report format. Please consult your healthcare provider for interpretation.",
           "Unable to analyze the report format. Please consult your healthcare provider for interpretation."}
     /\ ret.analysis.summary \in
          {"The analysis could not extract structured metrics from this report format.",
           "The analysis encountered an error when processing this report."}

\* a plain sentence without braces or fences came back and the fallback
\* result was returned
C10_Witness ==
  /\ call.fn = "analyzeWithModel"
  /\ call.response.kind = "content"
  /\ call.response.content.type = "string"
  /\ call.response.content.fence.k = "nomatch"
  /\ call.response.content.brace.k = "nomatch"
  /\ call.response.content.whole.k = "invalid"
  /\ ret.analysis.tag = "ok"
  /\ ret.analysis.summary = SumParseError

\* the request failed, or the answer has no message
RequestFailed(resp) ==
  resp.kind \in {"transport", "http_error_json", "http_error_text", "no_message"}

\* the value the analyzer goes on with is an object whose metrics field is
\* something other than an array
MetricsNoArray(resp) ==
  /\ resp.kind = "content"
  /\ AnalysisContent(resp.content).k = "object"
  /\ AnalysisContent(resp.content).metrics = "nonarray"

\* the text the analyzer hands to JSON.parse does not parse
ParseFails(resp) ==
  resp.kind = "content" /\ AnalysisContent(resp.content).k = "invalid"

\* C11 as stated: for every internal error (failed request, missing
\* message, metrics that are no array, parse failure) the analyzer returns
\* the fallback result tagged with the model, never null.
C11_EveryErrorGivesTaggedFallback ==
  ( /\ call.fn = "analyzeWithModel"
    /\ call.variant = "openrouter"
    /\ (RequestFailed(call.response) \/ MetricsNoArray(call.response)
          \/ ParseFails(call.response)) )
  => /\ ret.analysis.tag = "ok"
     /\ ret.analysis.metrics = << >>
     /\ ret.analysis.recommendations \in FallbackRecommendations
     /\ ret.analysis.modelUsed = call.model

\* C11, amended: the analyzer settles to null or to a result, never to a
\* rejection; it returns null for a failed request, for an answer without
\* message and for metrics that are no array; only a parse failure gives the
\* fallback result, which analyzeWithModel tags with the model it asked and
\* analyzeWithGroq leaves untagged.
C11_NullOnRequestErrorFallbackOnParseError ==
  call.fn = "analyzeWithModel" =>
    /\ ret.analysis.tag \in {"null", "ok"}
    /\ RequestFailed(call.response) => ret.analysis = NullAnalysis
    /\ MetricsNoArray(call.response) => ret.analysis = NullAnalysis
    /\ ParseFails(call.response) =>
         /\ ret.analysis.tag = "ok"
         /\ ret.analysis.metrics = << >>
         /\ ret.analysis.recommendations =
              "Unable to analyze the report format. Please consult your healthcare provider for interpretation."
         /\ ret.analysis.summary =
              "The analysis encountered an error when processing this report."
         /\ ret.analysis.modelUsed =
              (IF call.variant = "openrouter" THEN call.model ELSE "")

\* analyzeWithModel got a non-2xx answer and returned null
C11_Witness ==
  /\ call.fn = "analyzeWithModel"
  /\ call.variant = "openrouter"
  /\ call.response.kind = "http_error_json"
  /\ ret.analysis = NullAnalysis

\* a catalog entry that advertises vision input and a context of 4000 or more
Qualifies(e) == (e.capVision \/ e.archImage) /\ e.context_length >= 4000

\* C12: getAvailableModels returns the five default models whenever the
\* catalog request fails (no answer, a non-2xx status, a body that is no
\* catalog) and whenever no catalog entry qualifies.
C12_DefaultsWheneverFetchFailsOrNothingQualifies ==
  ( /\ call.fn = "getAvailableModels"
    /\ \/ call.catalog.kind # "ok"
       \/ \A i \in 1..Len(call.catalog.data) : ~Qualifies(call.catalog.data[i]) )
  => ret.models = << "anthropic/claude-3-opus:beta", "openai/gpt-4o",
                     "anthropic/claude-3-sonnet:beta", "google/gemini-pro-vision",
                     "anthropic/claude-3-haiku:beta" >>

\* C13: when the catalog arrives and some entry qualifies, the models
\* selected (the ones performOCR then invokes) are the first five, or all if
\* fewer, of the qualifying entries in catalog order.
C13_FirstFiveQualifyingInCatalogOrder ==
  ( /\ call.fn = "getAvailableModels"
    /\ call.catalog.kind = "ok"
    /\ \E i \in 1..Len(call.catalog.data) : Qualifies(call.catalog.data[i]) )
  => LET q == SelectSeq(call.catalog.data, Qualifies)
     IN  /\ Len(ret.models) = (IF Len(q) < 5 THEN Len(q) ELSE 5)
         /\ Len(ret.models) <= 5
         /\ \A i \in 1..Len(ret.models) : ret.models[i] = q[i].id

\* a catalog of three entries of which one has no vision input and one has
\* a context of 3999: only the remaining one was selected
C13_Witness ==
  /\ call.fn = "getAvailableModels"
  /\ call.catalog.kind = "ok"
  /\ Len(call.catalog.data) = 3
  /\ \E i \in 1..3 : /\ call.catalog.data[i].capVision
                       /\ call.catalog.data[i].context_length < 4000
  /\ ret.models = << "google/gemini-pro-vision" >>

\* C14: when the selection is empty, performOCR returns null, having
\* notified that no model is available and invoked no model; and it goes on
\* to invoke models only with a selection that is not empty.
C14_EmptySelectionEndsTheRun ==
  [][ (pc = "catalog" /\ pc' # "catalog")
      => \/ /\ pc' = "idle"
            /\ models' = << >> /\ allResults' = << >>
            /\ ocrResult' = NullResult
            /\ lastRun' = "ocr_failed"
            /\ "No Available Models" \in toasts'
            /\ netCalls' = netCalls
         \/ /\ pc' = "invoking"
            /\ Len(models') > 0
            /\ Len(allResults') = Len(models')
            /\ netCalls' = netCalls + Len(models') ]_vars

\* the catalog request was the only request of a run that ended for want of
\* a model
C14_Witness ==
  /\ variant = "dynamic"
  /\ lastRun = "ocr_failed"
  /\ "No Available Models" \in toasts
  /\ models = << >>
  /\ netCalls = 1
  /\ ocrResult = NullResult

\* C15: in the result of analyzeHealthReport and in the report that is
\* stored, name, age and gender are the persisted scalar when there is one
\* and the value of the analyzer model otherwise; the other patient fields
\* are those of the model.
C15_StoredScalarsWinOverModelValues ==
  LET Wins(stored, supplied, final) == final = (IF stored # Null THEN stored ELSE supplied)
      Merged(final) ==
        /\ Wins(patientName, result.patientInfo.name, final.name)
        /\ Wins(patientAge, result.patientInfo.age, final.age)
        /\ Wins(patientGender, result.patientInfo.gender, final.gender)
        /\ final.patientId = result.patientInfo.patientId
  IN  /\ (variant \in {"dynamic", "user"} /\ pc = "analysis_done") =>
           Merged(analysisResults.patientInfo)
      /\ (variant \in {"dynamic", "user"} /\ lastRun = "stored") =>
           (Len(scannedReports) = 1 /\ Merged(scannedReports[1].patientInfo))

\* the model supplied a name, an age and an id; the name read from the
\* document replaced the model's, the age, of which nothing was read, is the
\* model's
C15_Witness ==
  /\ lastRun = "stored"
  /\ patientName # Null /\ patientAge = Null
  /\ result.patientInfo.name = "J. Doe"
  /\ scannedReports[1].patientInfo.name = patientName
  /\ scannedReports[1].patientInfo.age = "41"
  /\ scannedReports[1].patientInfo.patientId = "P-1"

\* number of characters of the names that occur
Length(name) ==
  CASE name = "Doe" -> 3 [] name = "Roe" -> 3 [] name = "J. Doe" -> 6
    [] name = "John Doe" -> 8 [] name = "Jane Roe" -> 8 [] name = "John A Doe" -> 10
    [] OTHER -> 0

\* C16: while the models of one run answer, a patient name that was read
\* from the text of one model is replaced by the name read from the text of
\* another only if the new name is strictly longer.
C16_EarlierValueKeptUnlessLonger ==
  [][ ( /\ pc = "invoking"
        /\ patientName \in {HeaderName(file.name), Surname(file.name)}
        /\ patientName' # patientName )
      => Length(patientName') > Length(patientName) ]_vars

\* the values the extraction can take from the file of the run
OfThisDocument(name, age, gender) ==
  /\ name \in {Null, extractPatientNameFromFilename(file.name),
                HeaderName(file.name), Surname(file.name)}
  /\ age \in {Null, HeaderAge(file.name)}
  /\ gender \in {Null, HeaderGender(file.name)}

ResultsInListOrder ==
  [i \in 1..Len(models) |->
     performOCRWithModel(variant, file, models[i], responses[i], customToast).result]

\* the first of the longest texts of a list of results; null when none has
\* a text
FirstLongest(res) ==
  IF \A i \in 1..Len(res) : res[i].tag # "ok" THEN NullResult
  ELSE res[CHOOSE i \in 1..Len(res) :
             /\ res[i].tag = "ok"
             /\ \A j \in 1..Len(res) :
                  res[j].tag = "ok" =>
                    \/ res[j].text.len < res[i].text.len
                    \/ res[j].text.len = res[i].text.len /\ i <= j]

\* C18: once every request has completed, what performOCR returns is
\* determined by the list of models and the answer of each model alone: it
\* is the same for every order of completion.
C18_ResultIndependentOfCompletionOrder ==
  (pc # "invoking" /\ Len(order) = Len(models) /\ Len(models) > 0) =>
    ocrResult = FirstLongest(ResultsInListOrder)

\* the requests completed in the reverse of the list order, the first and
\* the last model returned texts of the same, maximal, length, and the text
\* of the first model was returned
C18_Witness ==
  /\ pc = "ocr_done"
  /\ order = << 3, 2, 1 >>
  /\ allResults[1].tag = "ok" /\ allResults[3].tag = "ok"
  /\ allResults[1].text.len = allResults[3].text.len
  /\ allResults[2].tag = "ok" => allResults[2].text.len < allResults[1].text.len
  /\ ocrResult = allResults[1]

\* C19: for one and the same HTTP response, performOCRWithModel settles to
\* the same value whatever sink it was given: one that returns, one that
\* raises, or none.
C19_SinkDoesNotAlterTheReturnValue ==
  ( /\ call.fn = "performOCRWithModel"
    /\ call.outcome.kind \in {"ok", "no_content", "http_error_json", "http_error_text"} )
  => ret.result = performOCRWithModel(call.variant, call.file, call.model,
                                     call.outcome, "default").result

\* C20: every metric of a result the analyzer returned, and every metric of
\* a stored report, has an empty history.
C20_EveryMetricHasEmptyHistory ==
  /\ \A a \in {result, analysisResults} :
       a.tag = "ok" => \A i \in 1..Len(a.metrics) : a.metrics[i].history = << >>
  /\ \A r \in 1..Len(scannedReports) :
       \A i \in 1..Len(scannedReports[r].metrics) :
         scannedReports[r].metrics[i].history = << >>

\* a report was stored whose first metric is the one the model had supplied
\* with a history of one entry
C20_Witness ==
  /\ lastRun = "stored"
  /\ Len(scannedReports[1].metrics) >= 1
  /\ scannedReports[1].metrics[1].name = "Glucose"
  /\ rmGlucose.history # << >>
  /\ scannedReports[1].metrics[1].history = << >>

\* the metrics the response carried, as the model supplied them
SuppliedMetrics == AnalysisContent(call.response.content).list

C22_OneEntryPerNormalizedName ==
  lastRun = "stored" =>
    LET ms == scannedReports[1].metrics
    IN  \A i, j \in 1..Len(ms) :
          normalizeMetricName(ms[i].name) = normalizeMetricName(ms[j].name) => i = j

\* no two entries of the list share a normalized name
DistinctNames(metrics) ==
  \A i, j \in 1..Len(metrics) :
    normalizeMetricName(metrics[i].name) = normalizeMetricName(metrics[j].name) => i = j

\* C23 as stated: merging any list of metrics with itself yields the list
\* itself, entry by entry and field by field.
C23_MergeWithItselfIsTheList ==
  call.fn = "mergeMetrics" => ret.merged = call.list

\* C23: merging a list whose entries have pairwise distinct normalized names
\* with itself yields that list, entry by entry and field by field; merging
\* any list with itself yields one entry per normalized name, the same list
\* as merging the result with itself once more.
C23_MergeWithItselfIsStable ==
  call.fn = "mergeMetrics" =>
    /\ DistinctNames(call.list) => ret.merged = call.list
    /\ DistinctNames(ret.merged)
    /\ mergeMetrics(ret.merged, ret.merged) = ret.merged

\* a list of two differently described metrics, merged with itself
C23_Witness ==
  /\ call.fn = "mergeMetrics"
  /\ Len(call.list) = 2
  /\ call.list[1].name = "Glucose" /\ call.list[2].name = "Sodium"
  /\ call.list[1].description = "Fasting sugar"
  /\ call.list[2].range = "Not specified"
  /\ ret.merged = call.list

\* C24: fileToBase64 settles whatever terminal event the reader fires: it
\* resolves when the read loads a string and rejects when the read errors,
\* is aborted, or loads something that is no string (so that performOCR
\* returns null instead of waiting forever).
C24_EncoderSettlesOnEveryReaderEvent ==
  call.fn = "fileToBase64" =>
    ret.result.tag = IF call.outcome.kind = "ok" THEN "resolved" ELSE "rejected"

\* the requests the all-parallel performOCR has to issue: one per selected
\* model, after the one catalog request of the dynamic variant
RequestsDue == Len(models) + (IF variant = "dynamic" THEN 1 ELSE 0)

\* C25: the all-parallel performOCR invokes every selected model exactly
\* once, all of them before it awaits any, and it returns (a result or the
\* aggregate failure) only when every issued request has settled; no request
\* is cancelled or dropped.
C25_ReturnsOnlyAfterEveryRequestSettled ==
  [][ (variant \in ParallelVariants /\ pc = "invoking") =>
        /\ Len(models) >= 1
        /\ Len(allResults) = Len(models)
        /\ netCalls = RequestsDue
        /\ models' = models
        /\ netCalls' = netCalls
        /\ \A i \in 1..Len(models) :
             allResults[i] # PendingResult => allResults'[i] = allResults[i]
        /\ pc' # "invoking" =>
             /\ \A i \in 1..Len(models) : allResults[i] # PendingResult
             /\ allResults' = allResults ]_vars

\* performOCR returned after two invocations, one failed and one succeeded
C25_Witness ==
  /\ variant \in ParallelVariants
  /\ pc = "ocr_done"
  /\ Len(models) = 2
  /\ allResults[1] = NullResult
  /\ allResults[2].tag = "ok"
  /\ ocrResult = allResults[2]
  /\ netCalls = RequestsDue

\* the scalar of one field left in storage when the requests complete in the
\* order ord, after the first k of them
RECURSIVE WrittenInOrder(_, _, _)
WrittenInOrder(field, ord, k) ==
  IF k = 0 THEN Null
  ELSE SetIf(WrittenInOrder(field, ord, k - 1),
             performOCRWithModel(variant, file, models[ord[k]], responses[ord[k]],
                                 customToast).info[field])

\* the models' positions in the order of the list
ListOrder == [i \in 1..Len(models) |-> i]

\* C26: for a fixed model list and fixed answers, the patient name, age and
\* gender left in storage when the all-parallel performOCR returns are the
\* same under every completion order: they are the ones left when the
\* requests complete in the order of the list.
C26_ScalarsIndependentOfCompletionOrder ==
  (pc # "invoking" /\ Len(order) = Len(models)) =>
    /\ patientName = WrittenInOrder("name", ListOrder, Len(models))
    /\ patientAge = WrittenInOrder("age", ListOrder, Len(models))
    /\ patientGender = WrittenInOrder("gender", ListOrder, Len(models))

\* both tabs ended their run with a stored report
BothStored == lastRun = "stored" /\ tab2.lastRun = "stored"

\* the names, ages and genders a run can obtain from the document doc: from
\* its file name, from its transcriptions, or from the analyzer's answer
NamesOf(doc) ==
  {Null, "J. Doe", extractPatientNameFromFilename(doc), HeaderName(doc), Surname(doc)}
AgesOf(doc) == {Null, "41", HeaderAge(doc)}
GendersOf(doc) == {Null, "Male", HeaderGender(doc)}

\* C27 as stated: when the runs of two tabs interleave and both succeed,
\* the slot holds exactly one report, and every field of it, patient name,
\* age, gender and the title included, comes from the document of the run
\* that wrote it.
C27_EveryFieldFromTheWritersDocument ==
  BothStored =>
    /\ Len(scannedReports) = 1
    /\ LET r == scannedReports[1]
           doc == r.rawText.doc
       IN  /\ doc \in {file.name, tab2.file.name}
           /\ r.patientInfo.name \in NamesOf(doc)
           /\ r.patientInfo.age \in AgesOf(doc)
           /\ r.patientInfo.gender \in GendersOf(doc)
           /\ r.title.text \in NamesOf(doc) \cup {WithoutExtension(doc)}

\* C27: the slot never holds more than one report; the step in which a run
\* stores its report leaves exactly that report in the slot, with the text,
\* metrics, recommendations and summary of that run's own document, while
\* its patient name, age and gender are the shared scalars as they stand at
\* that moment (whichever tab wrote them) or else the analyzer's values, and
\* the title is that name or else the file name; when both runs have
\* succeeded the slot holds the report of one of the two.
C27_LastWriteWinsWithSharedScalars ==
  [][ /\ Len(scannedReports') <= 1
      /\ (tab2' = tab2 /\ lastRun # "stored" /\ lastRun' = "stored") =>
           /\ Len(scannedReports') = 1
           /\ LET r == scannedReports'[1]
                  info == analysisResults.patientInfo
              IN  /\ r.rawText = ocrResult.text
                  /\ r.rawText.doc = file.name
                  /\ r.metrics = analysisResults.metrics
                  /\ r.recommendations = analysisResults.recommendations
                  /\ r.summary = analysisResults.summary
                  /\ r.patientInfo.name = IF patientName # Null THEN patientName ELSE info.name
                  /\ r.patientInfo.age = IF patientAge # Null THEN patientAge ELSE info.age
                  /\ r.patientInfo.gender =
                       IF patientGender # Null THEN patientGender ELSE info.gender
                  /\ r.title.text = IF r.patientInfo.name # Null THEN r.patientInfo.name
                                    ELSE WithoutExtension(file.name)
      /\ (lastRun' = "stored" /\ tab2'.lastRun = "stored") =>
           /\ Len(scannedReports') = 1
           /\ scannedReports'[1].rawText.doc \in {file'.name, tab2'.file.name} ]_vars

\* both tabs stored a report, of different documents; the report left in the
\* slot is that of scan.pdf and carries the name read from the other
\* tab's document
C27_Witness ==
  /\ BothStored
  /\ file.name # tab2.file.name
  /\ Len(scannedReports) = 1
  /\ scannedReports[1].rawText.doc = "scan.pdf"
  /\ scannedReports[1].patientInfo.name = "John A Doe"
  /\ scannedReports[1].title.text = "John A Doe"

\* C28: a malformed fallback list (a text that is no JSON, or JSON that is
\* no array) neither raises nor keeps the primary model from being tried:
\* performOCR, given a key and an acceptable file, invokes the primary
\* model as if there were no fallbacks, and so does analyzeHealthReport.
C28_MalformedFallbacksStillTryThePrimary ==
  [][ /\ ( /\ pc = "uploading" /\ pc' # "uploading"
           /\ ~FallbacksAreArray
           /\ Rejection(file, openrouter_api_key) = "" )
         => /\ pc' = "invoking"
            /\ models' = << PrimaryModel >>
            /\ netCalls' = 1
      /\ ( /\ pc = "ocr_done" /\ pc' # "ocr_done"
           /\ ~FallbacksAreArray
           /\ AnalysisKey # Null )
         => /\ pc' = "analysis"
            /\ netCalls' = 1 ]_vars

\* C29: whenever the whole response text is itself valid JSON with a metrics
\* array, the analyzer returns the metrics of that object, whatever code
\* fence or braces the text holds inside its string values: the direct
\* parse comes first.
C29_WholeTextParsedFirst ==
  LET c == call.response.content
  IN  ( /\ call.fn = "analyzeWithModel"
        /\ call.response.kind = "content"
        /\ c.type = "string"
        /\ c.whole.k = "object"
        /\ c.whole.metrics = "array" )
      => /\ ret.analysis.tag = "ok"
         /\ ret.analysis.metrics = NormalizeAll(c.whole.list)

\* the number of metrics of a result; null has none
MetricCount(r) == Len(r.metrics)

\* one response for each result a model can return to analyzeHealthReport
\* (null, or a result that carries the model's name)
ObtainableFrom ==
  LET all == PipelineResponses \cup {SixMetricsResponse}
  IN  { CHOOSE resp \in all : analyzeWithModel("openrouter", resp, DefaultPrimary) = r :
        r \in { analyzeWithModel("openrouter", x, DefaultPrimary) : x \in all } }

\* C30: in analyzeHealthReport (OpenRouter) with fallback enabled, the
\* fallback models are tried, in the configured order and at most the first
\* 8 of them, exactly when the primary returned null or zero metrics; the
\* held result is replaced only by a fallback result with strictly more
\* metrics, or when nothing is held, so its metric count never decreases; no
\* model is invoked after a fallback result with more than 5 metrics was
\* adopted; the returned result has at least as many metrics as every result
\* obtained in the run.  Stated for every result the awaited model can
\* return: the step the analyzer takes on it is the step described.
C30_FallbackLoopKeepsTheBest ==
  ( pc = "analysis" /\ variant = "sequential" ) =>
    LET list == openrouter_fallback_models.list
        last == IF Len(list) > 8 THEN 8 ELSE Len(list)
        model == IF aIdx = 0 THEN PrimaryModel ELSE list[aIdx]
    IN  /\ aIdx <= last
        /\ netCalls = aIdx + 1
        /\ aIdx > 0 =>
             /\ openrouter_use_multiple_models
             /\ result.tag = "ok" => \E k \in 0..(aIdx - 1) :
                                       result.modelUsed = AnalysisModel(k)
        /\ \A resp \in ObtainableFrom :
           \A obtained \in { analyzeWithModel("openrouter", resp, model) } :
           \A adopted \in { /\ aIdx > 0
                            /\ obtained # NullAnalysis
                            /\ \/ result = NullAnalysis
                               \/ MetricCount(obtained) > MetricCount(result) } :
           \A held \in { IF aIdx = 0 \/ adopted THEN obtained ELSE result } :
           \A goesOn \in { IF aIdx = 0
                           THEN /\ MetricCount(obtained) = 0
                                /\ openrouter_use_multiple_models
                                /\ Len(list) > 0
                           ELSE /\ ~(adopted /\ MetricCount(obtained) > 5)
                                /\ aIdx < last } :
             /\ MetricCount(held) >= MetricCount(result)
             /\ MetricCount(held) >= MetricCount(obtained)
             /\ ENABLED ( /\ analysisSettles(resp)
                          /\ result' = held
                          /\ aIdx' = IF goesOn THEN aIdx + 1 ELSE aIdx
                          /\ netCalls' = IF goesOn THEN netCalls + 1 ELSE netCalls
                          /\ pc' = IF goesOn THEN "analysis"
                                   ELSE IF held = NullAnalysis THEN "idle"
                                   ELSE "analysis_done"
                          /\ pc' = "analysis_done" => analysisResults' = held )

\* the first of two fallback models returned six metrics, was adopted and
\* ended the run: the second one was never invoked
C30_Witness ==
  /\ variant = "sequential"
  /\ pc = "analysis_done"
  /\ openrouter_use_multiple_models
  /\ Len(openrouter_fallback_models.list) = 2
  /\ aIdx = 1
  /\ netCalls = 2
  /\ MetricCount(analysisResults) = 6
  /\ analysisResults = result
  /\ analysisResults.modelUsed = openrouter_fallback_models.list[1]

====
